---- MODULE Spec2Model ----
(***************************************************************************)
(* Priority task queue on Redis streams (queue_infra/redis_queue.py) and   *)
(* the worker pool that consumes it (worker.py).                           *)
(*                                                                         *)
(* The broker is modelled by the stream commands the code issues: XADD     *)
(* appends an entry and assigns its id, XREADGROUP with id ">" hands the   *)
(* entries after the group's last-delivered position to the calling        *)
(* consumer and records them in the group's pending entries list, XACK     *)
(* removes an id from that list, XLEN counts the entries of a stream.      *)
(*                                                                         *)
(* The workers are coroutines of one asyncio event loop: a step of the     *)
(* model is the code a coroutine runs between two suspension points.       *)
(***************************************************************************)
EXTENDS Integers, Sequences, FiniteSets, TLC

\* ------------------------------------------------------------------ bounds
NumWorkers == 2
MaxEnqueue == 2
MaxBatch == 2

\* -------------------------------------------------------- program constants
BatchSize == 1
ConsumerMaxRetries == 3
DefaultMaxRetries == 3

Workers == 0 .. (NumWorkers - 1)

\* TaskPriorityEnum, in the order start_consuming polls it
Priorities == <<"high", "normal", "low">>

\* RedisTaskQueue.priority_queues: priority -> stream name
PriorityQueues(p) ==
    CASE p = "high" -> "tasks:high"
      [] p = "normal" -> "tasks:normal"
      [] p = "low" -> "tasks:low"

LiveQueues == {PriorityQueues(Priorities[k]) : k \in 1 .. 3}

\* dead_letter_queue handed to every TaskConsumer by WorkerManager.start
DeadLetterQueue == "dead_letter_tasks"

QueueNames == LiveQueues \cup {DeadLetterQueue}

\* retry_count values a producer may put in the QueuedTask it enqueues
ProducerRetryCounts == {0, ConsumerMaxRetries}

VARIABLES
    stream,      \* stream name -> sequence of entries (XADD order)
    cursor,      \* live stream name -> number of entries the group has delivered
    pending,     \* live stream name -> set of [id, consumer]: the group's PEL
    nextId,      \* next message id the broker assigns
    produced,    \* number of tasks producers have enqueued
    cpc,         \* worker -> position of its start_consuming coroutine
    tier,        \* worker -> index in Priorities of the read it awaits
    running,     \* worker -> TaskConsumer.running
    batch,       \* worker -> sequence of the _handle_message coroutines of its batch
    mpc,         \* position of WorkerManager.start in main
    mrunning,    \* WorkerManager.running
    conn,        \* RedisTaskQueue.redis_client of the pool: "none", "open", "closed"
    stopPc,      \* invocation of WorkerManager.stop -> its position
    calls,       \* history: message id -> number of callback invocations for it
    dead_letter_queue,  \* TaskConsumer.dead_letter_queue of the consumers of the pool
    sleepFor,    \* worker -> seconds of the asyncio.sleep it awaits, 0 when none
    enqueueResult,  \* the exception a producer's latest enqueue_task raised, or "none"
    written,     \* the latest successful enqueue_task of a producer: its argument
                 \* `task` and the task_data (`fields`) it handed to XADD, as a set
                 \* of one record, empty before the first
    batch_size,  \* TaskConsumer.batch_size of the consumers of the pool, 0 while the
                 \* pool has none
    consumers,   \* WorkerManager.consumers: the worker ids of the TaskConsumers
    groups,      \* priority stream -> outcome of its xgroup_create in connect
    db           \* task id -> state of the row TaskService.create_task inserted for it

vars == <<stream, cursor, pending, nextId, produced, cpc, tier, running, batch,
          mpc, mrunning, conn, stopPc, calls, dead_letter_queue, sleepFor,
          enqueueResult, written, batch_size, consumers, groups, db>>

brokerVars == <<stream, cursor, pending, nextId>>
consumerVars == <<cpc, tier, running, batch, sleepFor>>
managerVars == <<mpc, mrunning, conn, stopPc, dead_letter_queue>>
producerVars == <<produced, enqueueResult, written, db>>
setupVars == <<batch_size, consumers, groups>>

\* Python's None
None == "None"

\* the truth value of an Optional[str]: `if self.dead_letter_queue:`,
\* `task.webhook_url or ""`
Truthy(x) == x /= None /\ x /= ""

StopCalls == {"signal", "finally"}

\* ---------------------------------------------------------------- broker

\* the fields of an entry _deserialize_task reads with fields[...]: a
\* missing one raises KeyError
RequiredFields == {"task_id", "user_id", "task_type", "priority", "input_text",
                   "user_context", "accessibility_mode"}

\* XADD: the entry written for `task`, with the id the broker assigns.
\* origin is 0 for a producer's entry and the id of the delivery that was
\* resolved for an entry written by _handle_failure. enqueue_task writes
\* every field of task_data: the entry lacks none.
Entry(task, id, origin) ==
    [id |-> id, origin |-> origin, task_id |-> task.task_id, priority |-> task.priority,
     retry_count |-> task.retry_count, max_retries |-> task.max_retries, missing |-> {}]

\* XAdd of a broker that keeps only the newest entry of a stream
XAddOverwrite(s, name, task, id, origin) ==
    [s EXCEPT ![name] = <<Entry(task, id, origin)>>]

XAdd(s, name, task, id, origin) ==
    [s EXCEPT ![name] = Append(@, Entry(task, id, origin))]

\* Undelivered of a read with id "0": the history of the stream
UndeliveredFromStart(name) == stream[name]

\* Undelivered of a read that hands out the newest entries first
UndeliveredNewestFirst(name) ==
    LET n == Len(stream[name]) - cursor[name]
    IN  [k \in 1 .. n |-> stream[name][Len(stream[name]) + 1 - k]]

\* XREADGROUP group consumer COUNT n STREAMS name ">": the entries never
\* delivered to the group, oldest first, at most n
Undelivered(name) == SubSeq(stream[name], cursor[name] + 1, Len(stream[name]))

Min(a, b) == IF a <= b THEN a ELSE b

\* XReadGroupAdvance of a read that does not move the group's position (a
\* plain XREAD, or an id other than ">")
XReadGroupNoAdvance(name, n) == cursor[name]

XReadGroupCount(name, n) == Min(n, Len(stream[name]) - cursor[name])

XReadGroupAdvance(name, n) == cursor[name] + n

\* XACK: the id leaves the pending entries list; an id that is not pending
\* is left alone and the command answers 0
XAck(pel, name, id) ==
    [pel EXCEPT ![name] = {e \in @ : e.id /= id}]

\* XLen of a command that counts only the entries not yet delivered to the group
XLenUndelivered(name) == Len(stream[name]) - cursor[name]

\* XLEN
XLen(name) == Len(stream[name])

IsPending(id) == \E name \in LiveQueues : \E e \in pending[name] : e.id = id

\* ------------------------------------------------------- RedisTaskQueue

\* the parameters of enqueue_task(self, task)
EnqueueTaskParams == {"task"}

\* the keys of RedisTaskQueue.priority_queues
PrioritySet == {Priorities[k] : k \in 1 .. Len(Priorities)}

\* get_queue_length(priority): XLEN of the stream of the priority
GetQueueLength(p) == XLen(PriorityQueues(p))

\* get_queue_stats(): XLEN of every stream of priority_queues, keyed by priority
GetQueueStats == [p \in PrioritySet |-> XLen(PriorityQueues(p))]

\* a call enqueue_task(task, **kw) raises TypeError for a keyword the
\* signature does not have
EnqueueTaskRaises(kw) == ~(kw \subseteq EnqueueTaskParams)

\* EnqueueTaskQueue of an enqueue that appends every task to the stream
\* the consumers poll first
EnqueueTaskQueueFirst(task) == PriorityQueues(Priorities[1])

\* EnqueueTaskQueue of an enqueue that ignores the priority of the task
EnqueueTaskQueueNormal(task) == PriorityQueues("normal")

\* the stream enqueue_task appends to
EnqueueTaskQueue(task) == PriorityQueues(task.priority)

\* a QueuedTask as TaskService.create_task builds it, and as a caller of
\* enqueue_task may build it (retry_count is a field of the schema)
QueuedTask(task_id, priority, retry_count) ==
    [task_id |-> task_id, user_id |-> 1, task_type |-> "unknown", priority |-> priority,
     input_text |-> "text", user_context |-> <<>>, accessibility_mode |-> FALSE,
     webhook_url |-> None, retry_count |-> retry_count, max_retries |-> DefaultMaxRetries]

\* values of the fields of a QueuedTask that enqueue_task converts: a dict
\* is the sequence of its <<key, value>> items
UserContexts == {<<>>, <<<<"language", "en">>>>}
WebhookUrls == {None, "", "http://hook"}
UserIds == {1, 2}

\* the QueuedTasks a caller may hand to enqueue_task as its n-th task
QueuedTasks(n) ==
    {[QueuedTask(n, p, rc) EXCEPT !.user_id = u, !.user_context = uc,
                                  !.accessibility_mode = am, !.webhook_url = w] :
        p \in {Priorities[k] : k \in 1 .. Len(Priorities)}, rc \in ProducerRetryCounts,
        u \in UserIds, uc \in UserContexts, am \in BOOLEAN, w \in WebhookUrls}

\* str(b) of a Python bool
Str(b) == IF b THEN "True" ELSE "False"

\* json.dumps of a dict of strings
JsonDumps(d) ==
    CASE d = <<>> -> "{}"
      [] d = <<<<"language", "en">>>> -> "{\"language\": \"en\"}"

\* json.loads, on the texts json.dumps produces here
JsonLoads(t) ==
    CASE t = "{}" -> <<>>
      [] t = "{\"language\": \"en\"}" -> <<<<"language", "en">>>>

\* datetime.utcnow().isoformat(): the clock is not modelled
UtcNowIsoformat == "utcnow"

\* enqueue_task: the task_data dict handed to XADD
TaskData(task) ==
    [task_id |-> task.task_id,
     user_id |-> task.user_id,
     task_type |-> task.task_type,
     priority |-> task.priority,
     input_text |-> task.input_text,
     user_context |-> JsonDumps(task.user_context),
     accessibility_mode |-> Str(task.accessibility_mode),
     webhook_url |-> IF Truthy(task.webhook_url) THEN task.webhook_url ELSE "",
     retry_count |-> task.retry_count,
     max_retries |-> task.max_retries,
     queued_at |-> UtcNowIsoformat]

\* TaskConsumer._deserialize_task raises for an entry that lacks a field it
\* indexes
DeserializeRaises(e) == e.missing \cap RequiredFields /= {}

\* TaskConsumer._deserialize_task
DeserializeTask(e) ==
    [task_id |-> e.task_id, priority |-> e.priority, retry_count |-> e.retry_count,
     max_retries |-> e.max_retries]

Init ==
    /\ stream = [name \in QueueNames |-> <<>>]
    /\ cursor = [name \in LiveQueues |-> 0]
    /\ pending = [name \in LiveQueues |-> {}]
    /\ nextId = 1
    /\ produced = 0
    /\ cpc = [c \in Workers |-> "absent"]
    /\ tier = [c \in Workers |-> 1]
    /\ running = [c \in Workers |-> FALSE]
    /\ batch = [c \in Workers |-> <<>>]
    /\ mpc = "init"
    /\ mrunning = FALSE
    /\ conn = "none"
    /\ stopPc = [s \in StopCalls |-> "idle"]
    /\ calls = <<>>
    /\ dead_letter_queue = None
    /\ sleepFor = [c \in Workers |-> 0]
    /\ enqueueResult = "none"
    /\ written = {}
    /\ batch_size = 0
    /\ consumers = <<>>
    /\ groups = [name \in LiveQueues |-> "none"]
    /\ db = <<>>

\* A producer (TaskService.create_task in the API process) calls
\* enqueue_task(task): one XADD to the stream of the task's priority.
ProducerEnqueue(p, rc) ==
    /\ produced < MaxEnqueue
    /\ LET task == QueuedTask(produced + 1, p, rc)
       IN  /\ stream' = XAdd(stream, EnqueueTaskQueue(task), task, nextId, 0)
           /\ written' = {[task |-> task, fields |-> TaskData(task)]}
    /\ nextId' = nextId + 1
    /\ produced' = produced + 1
    /\ calls' = Append(calls, 0)
    /\ enqueueResult' = "none"
    /\ UNCHANGED <<setupVars, cursor, pending, db, consumerVars, managerVars>>

\* XAddUnavailable with the entry appended all the same
XAddUnavailableWrites(s, name, task, id, origin) == XAdd(s, name, task, id, origin)

\* XADD on a connection that is down: redis raises ConnectionError, nothing
\* is appended
XAddUnavailable(s, name, task, id, origin) == s

\* enqueue_task(task) of a producer while the broker cannot be reached: the
\* awaited xadd raises, enqueue_task has no except clause and no retry, the
\* exception reaches the caller and no message id is returned
ProducerEnqueueError(p, rc) ==
    /\ LET task == QueuedTask(produced + 1, p, rc)
       IN  stream' = XAddUnavailable(stream, EnqueueTaskQueue(task), task, nextId, 0)
    /\ enqueueResult' = "ConnectionError"
    /\ UNCHANGED <<setupVars, cursor, pending, nextId, produced, calls, written, db, consumerVars, managerVars>>

\* the fields an entry written by another client of the broker may lack
ForeignMissing == {"task_id"}

\* Another client of the broker appends an entry to a priority stream that
\* does not have the shape enqueue_task writes: _deserialize_task is handed
\* whatever the stream holds.
ForeignEnqueue(p) ==
    /\ produced < MaxEnqueue
    /\ LET task == QueuedTask(produced + 1, p, 0)
       IN  stream' = [stream EXCEPT ![PriorityQueues(p)] =
                         Append(@, [Entry(task, nextId, 0) EXCEPT !.missing = ForeignMissing])]
    /\ nextId' = nextId + 1
    /\ produced' = produced + 1
    /\ calls' = Append(calls, 0)
    /\ UNCHANGED <<setupVars, cursor, pending, enqueueResult, written, db, consumerVars, managerVars>>

\* -------------------------------------------------------- WorkerManager

\* start(): await self.queue.connect() -- the client is created, then the
\* consumer group is created on every priority stream (id "0", mkstream),
\* by a broker that answers every xgroup_create
ManagerConnect ==
    /\ mpc = "init"
    /\ mpc' = "connecting"
    /\ conn' = "open"
    /\ groups' = [name \in LiveQueues |-> "created"]
    /\ UNCHANGED <<batch_size, consumers, brokerVars, producerVars, consumerVars, mrunning, dead_letter_queue, stopPc, calls>>

\* NextCycle of a loop that never tests the flag
NextCycleIgnoresFlag(c, isRunning) == "read"

\* the while test of start_consuming followed, when it passes, by the first
\* XREADGROUP of the cycle (no suspension point lies between them)
NextCycle(c, isRunning) == IF isRunning THEN "read" ELSE "stopped"

\* the consumers are constructed with batch size bs and dead-letter sink dlq,
\* appended to self.consumers and gathered;
\* every start_consuming runs up to its first XREADGROUP before any other
\* coroutine of the loop is resumed
LaunchWith(bs, dlq) ==
    /\ mpc = "connecting"
    /\ mpc' = "gather"
    /\ mrunning' = TRUE
    /\ running' = [c \in Workers |-> TRUE]
    /\ cpc' = [c \in Workers |-> NextCycle(c, TRUE)]
    /\ tier' = [c \in Workers |-> 1]
    /\ dead_letter_queue' = dlq
    /\ batch_size' = bs
    /\ consumers' = consumers \o [i \in 1 .. NumWorkers |-> i - 1]
    /\ UNCHANGED <<groups, brokerVars, producerVars, batch, sleepFor, conn, stopPc, calls>>

\* start(): TaskConsumer(..., dead_letter_queue="dead_letter_tasks")
ManagerLaunch == LaunchWith(BatchSize, DeadLetterQueue)

\* dead_letter_queue: Optional[str] = None, the default of TaskConsumer
DefaultDeadLetterQueue == None

\* a pool whose consumers are constructed without a dead-letter sink
DefaultLaunch == LaunchWith(BatchSize, DefaultDeadLetterQueue)

\* start(): gather returns once every start_consuming has returned
ManagerReturn ==
    /\ mpc = "gather"
    /\ \A c \in Workers : cpc[c] = "stopped"
    /\ mpc' = "returned"
    /\ UNCHANGED <<setupVars, brokerVars, producerVars, consumerVars, mrunning, dead_letter_queue, conn, stopPc, calls>>

\* the consumers stop() gathers stop_consuming for: self.consumers
Constructed == IF mpc \in {"init", "connecting"} THEN {} ELSE Workers

\* stop() may begin: as the task a signal handler creates (any time after
\* main installed the handlers), or in main's finally once start() returned
StopMayBegin(s) ==
    IF s = "signal" THEN TRUE ELSE mpc = "returned"

\* StopConsuming of a stop() that cancels the consumers' tasks
StopConsumingCancels(s) ==
    /\ stopPc[s] = "idle"
    /\ StopMayBegin(s)
    /\ mrunning' = FALSE
    /\ running' = [c \in Workers |-> IF c \in Constructed THEN FALSE ELSE running[c]]
    /\ cpc' = [c \in Workers |-> IF c \in Constructed THEN "stopped" ELSE cpc[c]]
    /\ batch' = [c \in Workers |-> <<>>]
    /\ stopPc' = [stopPc EXCEPT ![s] = "close"]
    /\ UNCHANGED <<setupVars, brokerVars, producerVars, tier, sleepFor, mpc, conn,
                   dead_letter_queue, calls>>

\* stop(): self.running = False, then TaskConsumer.stop_consuming of every
\* consumer: self.running = False
StopConsuming(s) ==
    /\ stopPc[s] = "idle"
    /\ StopMayBegin(s)
    /\ mrunning' = FALSE
    /\ running' = [c \in Workers |-> IF c \in Constructed THEN FALSE ELSE running[c]]
    /\ stopPc' = [stopPc EXCEPT ![s] = "close"]
    /\ UNCHANGED <<setupVars, brokerVars, producerVars, cpc, tier, batch, sleepFor, mpc, conn,
                   dead_letter_queue, calls>>

\* RedisTaskQueue.close: if self.redis_client: await self.redis_client.close()
QueueClose(c0) == IF c0 = "none" THEN c0 ELSE "closed"

\* CloseRaises of a client whose close() may be awaited once only
CloseRaisesWhenClosed(c0) == c0 = "closed"

\* RedisTaskQueue.close raises: never. `if self.redis_client` skips a client
\* that was never created, and close() of a client that is closed already
\* finds no connection to release and returns
CloseRaises(c0) == FALSE

\* stop(): await self.queue.close(), and what the invocation ends with
StopClose(s) ==
    /\ stopPc[s] = "close"
    /\ conn' = QueueClose(conn)
    /\ stopPc' = [stopPc EXCEPT ![s] = IF CloseRaises(conn) THEN "raised" ELSE "done"]
    /\ UNCHANGED <<setupVars, brokerVars, producerVars, consumerVars, mpc, mrunning, dead_letter_queue, calls>>

\* --------------------------------------------------------- TaskConsumer

QueueOfTier(k) == PriorityQueues(Priorities[k])

\* the _handle_message coroutine created for a delivered entry: its
\* arguments, its position (hpc), task_data (what the fields decode to, set
\* by the first statement when it does not raise), and what it has seen and
\* done so far: the callback's result (cb), the XACKs it sent (acks) and
\* the exception its except clause logged (exc)
Handler(name, e) ==
    [id |-> e.id, name |-> name, fields |-> e, task |-> DeserializeTask(e),
     hpc |-> "start", cb |-> "none", acks |-> 0, exc |-> "none"]

\* the for loop after a read that returned nothing: the next priority is
\* read, and after the last one the while test starts a new cycle
AfterEmptyRead(c) ==
    IF tier[c] < Len(Priorities)
    THEN /\ tier' = [tier EXCEPT ![c] = tier[c] + 1]
         /\ cpc' = cpc
    ELSE /\ tier' = [tier EXCEPT ![c] = 1]
         /\ cpc' = [cpc EXCEPT ![c] = NextCycle(c, running[c])]

\* start_consuming: the XREADGROUP the consumer awaits returns. With entries
\* it is their delivery (pending entries list, group position) and one
\* _handle_message per entry is gathered; without, the read timed out.
XReadGroup(c) ==
    /\ cpc[c] = "read"
    /\ LET name == QueueOfTier(tier[c])
           n == XReadGroupCount(name, batch_size)
           msgs == SubSeq(Undelivered(name), 1, n)
       IN  IF n > 0
           THEN /\ cursor' = [cursor EXCEPT ![name] = XReadGroupAdvance(name, n)]
                /\ pending' = [pending EXCEPT ![name] =
                                  @ \cup {[id |-> msgs[i].id, consumer |-> c] : i \in 1 .. n}]
                /\ batch' = [batch EXCEPT ![c] = [i \in 1 .. n |-> Handler(name, msgs[i])]]
                /\ cpc' = [cpc EXCEPT ![c] = "gather"]
                /\ UNCHANGED tier
           ELSE /\ AfterEmptyRead(c)
                /\ UNCHANGED <<cursor, pending, batch>>
    /\ UNCHANGED <<setupVars, stream, nextId, producerVars, running, sleepFor, managerVars, calls>>

\* await asyncio.sleep(5) of the except clause of start_consuming
BackoffSeconds == 5

\* start_consuming: the XREADGROUP raises (the broker is unreachable); the
\* except clause logs and the consumer sleeps 5 s. The for loop is left:
\* the next read is the one of the first priority.
XReadGroupError(c) ==
    /\ cpc[c] = "read"
    /\ cpc' = [cpc EXCEPT ![c] = "sleep"]
    /\ tier' = [tier EXCEPT ![c] = 1]
    /\ sleepFor' = [sleepFor EXCEPT ![c] = BackoffSeconds]
    /\ UNCHANGED <<setupVars, brokerVars, producerVars, running, batch, managerVars, calls>>

\* Backoff of a loop that ends after a broker error
BackoffGivesUp(c) ==
    /\ cpc[c] = "sleep"
    /\ cpc' = [cpc EXCEPT ![c] = "stopped"]
    /\ sleepFor' = [sleepFor EXCEPT ![c] = 0]
    /\ UNCHANGED <<setupVars, brokerVars, producerVars, tier, running, batch, managerVars, calls>>

\* start_consuming: the sleep is over, the while test starts a new cycle
Backoff(c) ==
    /\ cpc[c] = "sleep"
    /\ cpc' = [cpc EXCEPT ![c] = NextCycle(c, running[c])]
    /\ sleepFor' = [sleepFor EXCEPT ![c] = 0]
    /\ UNCHANGED <<setupVars, brokerVars, producerVars, tier, running, batch, managerVars, calls>>

\* what the operator of the debugger answers at the pdb.set_trace() prompt
\* of _handle_message: "continue" resumes the coroutine, "quit" (also the
\* end of input of a worker without a terminal) raises BdbQuit in it
PdbCommands == {"continue", "quit"}

\* OnDecodeError with the undecodable message acknowledged
OnDecodeErrorAck(h) == [h EXCEPT !.hpc = "xack", !.exc = "KeyError"]

\* _handle_message: _deserialize_task raised -- the except clause logs, and
\* the coroutine ends
OnDecodeError(h) == [h EXCEPT !.hpc = "done", !.exc = "KeyError"]

\* AwaitCallback of a handler that sends the XACK without awaiting the
\* callback
AckBeforeCallback(h) == [h EXCEPT !.hpc = "xack"]

\* _handle_message: success = await self.callback(task_data) -- the
\* coroutine waits for the callback
AwaitCallback(h) == [h EXCEPT !.hpc = "callback", !.cb = "running"]

\* _handle_message up to the call of the callback: the fields are decoded,
\* the debugger stops the coroutine, then the callback is awaited. An
\* exception of _deserialize_task, and BdbQuit, are Exceptions: the except
\* clause logs them and the coroutine ends. The coroutines of a batch are
\* started in the order asyncio.gather was handed them.
HandleMessage(c, i, cmd) ==
    /\ cpc[c] = "gather"
    /\ i \in DOMAIN batch[c]
    /\ batch[c][i].hpc = "start"
    /\ \A j \in 1 .. (i - 1) : batch[c][j].hpc /= "start"
    /\ LET id == batch[c][i].id
       IN  IF DeserializeRaises(batch[c][i].fields)
           THEN /\ batch' = [batch EXCEPT ![c][i] = OnDecodeError(@)]
                /\ UNCHANGED calls
           ELSE IF cmd = "continue"
           THEN /\ batch' = [batch EXCEPT ![c][i] = AwaitCallback(@)]
                /\ calls' = [calls EXCEPT ![id] = @ + 1]
           ELSE /\ batch' = [batch EXCEPT ![c][i].hpc = "done", ![c][i].exc = "BdbQuit"]
                /\ UNCHANGED calls
    /\ UNCHANGED <<setupVars, brokerVars, producerVars, cpc, tier, running, sleepFor, managerVars>>

\* what the awaited callback does: it returns True or False, or it raises
CallbackOutcomes == {"true", "false", "raise"}

\* IncrementRetry counting the attempt twice
IncrementRetryTwice(task) == [task EXCEPT !.retry_count = @ + 2]

\* _handle_failure: task_data.retry_count += 1
IncrementRetry(task) == [task EXCEPT !.retry_count = @ + 1]

\* FailureBranch without the test of dead_letter_queue: retries exhausted
\* always go to the dead-letter branch
FailureBranchAlwaysSink(task) ==
    IF task.retry_count <= ConsumerMaxRetries
    THEN [kind |-> "retry", kw |-> {"task", "delay"}, queue |-> EnqueueTaskQueue(task)]
    ELSE [kind |-> "dead_letter", kw |-> {"task", "queue_name"}, queue |-> DeadLetterQueue]

\* FailureBranch of a routine that compares with the max_retries field of
\* the task
FailureBranchTaskMax(task) ==
    IF task.retry_count <= task.max_retries
    THEN [kind |-> "retry", kw |-> {"task", "delay"}, queue |-> EnqueueTaskQueue(task)]
    ELSE IF Truthy(dead_letter_queue)
         THEN [kind |-> "dead_letter", kw |-> {"task", "queue_name"}, queue |-> dead_letter_queue]
         ELSE [kind |-> "drop", kw |-> {}, queue |-> None]

\* _handle_failure: the branch taken for the incremented task, with the
\* keywords of the enqueue_task call it makes and the stream it names
FailureBranch(task) ==
    IF task.retry_count <= ConsumerMaxRetries
    THEN [kind |-> "retry", kw |-> {"task", "delay"}, queue |-> EnqueueTaskQueue(task)]
    ELSE IF Truthy(dead_letter_queue)
         THEN [kind |-> "dead_letter", kw |-> {"task", "queue_name"}, queue |-> dead_letter_queue]
         ELSE [kind |-> "drop", kw |-> {}, queue |-> None]

\* HandleFailure of a routine that sends the XACK although its enqueue_task
\* raised
HandleFailureAcksAfterError(c, i) ==
    LET h == batch[c][i]
        task == IncrementRetry(h.task)
    IN  /\ batch' = [batch EXCEPT ![c][i].hpc = "xack", ![c][i].task = task,
                                  ![c][i].cb = "false"]
        /\ UNCHANGED <<stream, nextId, calls>>

\* _handle_failure after the callback returned False. The call of
\* enqueue_task raises TypeError before anything is sent when it passes a
\* keyword enqueue_task does not take; the exception leaves _handle_failure
\* before its XACK and is logged by _handle_message.
HandleFailure(c, i) ==
    LET h == batch[c][i]
        task == IncrementRetry(h.task)
        br == FailureBranch(task)
    IN  IF br.kind = "drop"
        THEN /\ batch' = [batch EXCEPT ![c][i].hpc = "xack", ![c][i].task = task,
                                       ![c][i].cb = "false"]
             /\ UNCHANGED <<stream, nextId, calls>>
        ELSE IF EnqueueTaskRaises(br.kw)
        THEN /\ batch' = [batch EXCEPT ![c][i].hpc = "done", ![c][i].task = task,
                                       ![c][i].cb = "false", ![c][i].exc = "TypeError"]
             /\ UNCHANGED <<stream, nextId, calls>>
        ELSE /\ stream' = XAdd(stream, br.queue, task, nextId, h.id)
             /\ nextId' = nextId + 1
             /\ calls' = Append(calls, 0)
             /\ batch' = [batch EXCEPT ![c][i].hpc = "xack", ![c][i].task = task,
                                       ![c][i].cb = "false"]

\* OnSuccess with the XACK forgotten
OnSuccessNoAck(h) == [h EXCEPT !.hpc = "done", !.cb = "true"]

\* _handle_message: success is true -- the XACK is sent
OnSuccess(h) == [h EXCEPT !.hpc = "xack", !.cb = "true"]

\* OnCallbackException with a fault treated like a result: the XACK is sent
OnCallbackExceptionAck(h) == [h EXCEPT !.hpc = "xack", !.cb = "raised", !.exc = "Exception"]

\* _handle_message: the callback raised -- the except clause logs, and the
\* coroutine ends
OnCallbackException(h) == [h EXCEPT !.hpc = "done", !.cb = "raised", !.exc = "Exception"]

\* _handle_message: the callback returns or raises
CallbackReturn(c, i, outcome) ==
    /\ cpc[c] = "gather"
    /\ i \in DOMAIN batch[c]
    /\ batch[c][i].hpc = "callback"
    /\ CASE outcome = "true" ->
              /\ batch' = [batch EXCEPT ![c][i] = OnSuccess(@)]
              /\ UNCHANGED <<stream, nextId, calls>>
         [] outcome = "false" -> HandleFailure(c, i)
         [] outcome = "raise" ->
              /\ batch' = [batch EXCEPT ![c][i] = OnCallbackException(@)]
              /\ UNCHANGED <<stream, nextId, calls>>
    /\ UNCHANGED <<setupVars, cursor, pending, producerVars, cpc, tier, running, sleepFor, managerVars>>

\* _handle_message / _handle_failure: the XACK of the delivered message
\* reaches the broker
XAckMessage(c, i) ==
    /\ cpc[c] = "gather"
    /\ i \in DOMAIN batch[c]
    /\ batch[c][i].hpc = "xack"
    /\ pending' = XAck(pending, batch[c][i].name, batch[c][i].id)
    /\ batch' = [batch EXCEPT ![c][i].hpc = "done", ![c][i].acks = @ + 1]
    /\ UNCHANGED <<setupVars, stream, cursor, nextId, producerVars, cpc, tier, running, sleepFor,
                   managerVars, calls>>

\* GatherDone of a loop that goes on with the priority it was reading
GatherDoneNoRestart(c) ==
    /\ cpc[c] = "gather"
    /\ \A i \in DOMAIN batch[c] : batch[c][i].hpc = "done"
    /\ batch' = [batch EXCEPT ![c] = <<>>]
    /\ cpc' = [cpc EXCEPT ![c] = NextCycle(c, running[c])]
    /\ UNCHANGED <<setupVars, brokerVars, producerVars, tier, running, sleepFor, managerVars, calls>>

\* GatherDone of a loop that goes on as soon as the first _handle_message of
\* the batch has ended
GatherDoneFirst(c) ==
    /\ cpc[c] = "gather"
    /\ batch[c][1].hpc = "done"
    /\ batch' = [batch EXCEPT ![c] = <<>>]
    /\ cpc' = [cpc EXCEPT ![c] = NextCycle(c, running[c])]
    /\ tier' = [tier EXCEPT ![c] = 1]
    /\ UNCHANGED <<setupVars, brokerVars, producerVars, running, sleepFor, managerVars, calls>>

\* GatherDone of a loop that serves the priorities in turn: after a batch it
\* goes on with the next priority
GatherDoneNextTier(c) ==
    /\ cpc[c] = "gather"
    /\ \A i \in DOMAIN batch[c] : batch[c][i].hpc = "done"
    /\ batch' = [batch EXCEPT ![c] = <<>>]
    /\ cpc' = [cpc EXCEPT ![c] = NextCycle(c, running[c])]
    /\ tier' = [tier EXCEPT ![c] = IF tier[c] < Len(Priorities) THEN tier[c] + 1 ELSE 1]
    /\ UNCHANGED <<setupVars, brokerVars, producerVars, running, sleepFor, managerVars, calls>>

\* start_consuming: asyncio.gather returns when every _handle_message of
\* the batch has ended; break, then the while test
GatherDone(c) ==
    /\ cpc[c] = "gather"
    /\ \A i \in DOMAIN batch[c] : batch[c][i].hpc = "done"
    /\ batch' = [batch EXCEPT ![c] = <<>>]
    /\ cpc' = [cpc EXCEPT ![c] = NextCycle(c, running[c])]
    /\ tier' = [tier EXCEPT ![c] = 1]
    /\ UNCHANGED <<setupVars, brokerVars, producerVars, running, sleepFor, managerVars, calls>>

\* ------------------------------------------------------------ the system

Next ==
    \/ \E k \in 1 .. Len(Priorities), rc \in ProducerRetryCounts :
          ProducerEnqueue(Priorities[k], rc)
    \/ \E k \in 1 .. Len(Priorities), rc \in ProducerRetryCounts :
          ProducerEnqueueError(Priorities[k], rc)
    \/ \E k \in 1 .. Len(Priorities) : ForeignEnqueue(Priorities[k])
    \/ ManagerConnect
    \/ ManagerLaunch
    \/ ManagerReturn
    \/ \E s \in StopCalls : StopConsuming(s)
    \/ \E s \in StopCalls : StopClose(s)
    \/ \E c \in Workers : XReadGroup(c)
    \/ \E c \in Workers : XReadGroupError(c)
    \/ \E c \in Workers : Backoff(c)
    \/ \E c \in Workers, i \in 1 .. MaxBatch, cmd \in PdbCommands : HandleMessage(c, i, cmd)
    \/ \E c \in Workers, i \in 1 .. MaxBatch, o \in CallbackOutcomes : CallbackReturn(c, i, o)
    \/ \E c \in Workers, i \in 1 .. MaxBatch : XAckMessage(c, i)
    \/ \E c \in Workers : GatherDone(c)

Spec == Init /\ [][Next]_vars

\* The same pool with consumers that have no dead-letter sink.
NextNoSink ==
    \/ \E k \in 1 .. Len(Priorities), rc \in ProducerRetryCounts :
          ProducerEnqueue(Priorities[k], rc)
    \/ \E k \in 1 .. Len(Priorities), rc \in ProducerRetryCounts :
          ProducerEnqueueError(Priorities[k], rc)
    \/ \E k \in 1 .. Len(Priorities) : ForeignEnqueue(Priorities[k])
    \/ ManagerConnect
    \/ DefaultLaunch
    \/ ManagerReturn
    \/ \E s \in StopCalls : StopConsuming(s)
    \/ \E s \in StopCalls : StopClose(s)
    \/ \E c \in Workers : XReadGroup(c)
    \/ \E c \in Workers : XReadGroupError(c)
    \/ \E c \in Workers : Backoff(c)
    \/ \E c \in Workers, i \in 1 .. MaxBatch, cmd \in PdbCommands : HandleMessage(c, i, cmd)
    \/ \E c \in Workers, i \in 1 .. MaxBatch, o \in CallbackOutcomes : CallbackReturn(c, i, o)
    \/ \E c \in Workers, i \in 1 .. MaxBatch : XAckMessage(c, i)
    \/ \E c \in Workers : GatherDone(c)

NoSinkSpec == Init /\ [][NextNoSink]_vars

\* The pool with the broker reachable and no stop requested: no XREADGROUP
\* raises and no signal arrives.
NextAvailable ==
    \/ \E k \in 1 .. Len(Priorities), rc \in ProducerRetryCounts :
          ProducerEnqueue(Priorities[k], rc)
    \/ \E k \in 1 .. Len(Priorities) : ForeignEnqueue(Priorities[k])
    \/ ManagerConnect
    \/ ManagerLaunch
    \/ \E c \in Workers : XReadGroup(c)
    \/ \E c \in Workers, i \in 1 .. MaxBatch, cmd \in PdbCommands : HandleMessage(c, i, cmd)
    \/ \E c \in Workers, i \in 1 .. MaxBatch, o \in CallbackOutcomes : CallbackReturn(c, i, o)
    \/ \E c \in Workers, i \in 1 .. MaxBatch : XAckMessage(c, i)
    \/ \E c \in Workers : GatherDone(c)

\* The event loop runs every coroutine that is ready, the broker answers
\* every command, and every awaited callback ends.
Fairness ==
    /\ WF_vars(ManagerConnect)
    /\ WF_vars(ManagerLaunch)
    /\ \A c \in Workers :
          /\ WF_vars(XReadGroup(c))
          /\ WF_vars(\E i \in 1 .. MaxBatch, cmd \in PdbCommands : HandleMessage(c, i, cmd))
          /\ WF_vars(\E i \in 1 .. MaxBatch, o \in CallbackOutcomes : CallbackReturn(c, i, o))
          /\ WF_vars(\E i \in 1 .. MaxBatch : XAckMessage(c, i))
          /\ WF_vars(GatherDone(c))

FairSpec == Init /\ [][NextAvailable]_vars /\ Fairness

\* The pool fed by enqueue_task alone, with stop requests and broker errors.
NextStop ==
    \/ \E k \in 1 .. Len(Priorities), rc \in ProducerRetryCounts :
          ProducerEnqueue(Priorities[k], rc)
    \/ ManagerConnect
    \/ ManagerLaunch
    \/ ManagerReturn
    \/ \E s \in StopCalls : StopConsuming(s)
    \/ \E s \in StopCalls : StopClose(s)
    \/ \E c \in Workers : XReadGroup(c)
    \/ \E c \in Workers : XReadGroupError(c)
    \/ \E c \in Workers : Backoff(c)
    \/ \E c \in Workers, i \in 1 .. MaxBatch, cmd \in PdbCommands : HandleMessage(c, i, cmd)
    \/ \E c \in Workers, i \in 1 .. MaxBatch, o \in CallbackOutcomes : CallbackReturn(c, i, o)
    \/ \E c \in Workers, i \in 1 .. MaxBatch : XAckMessage(c, i)
    \/ \E c \in Workers : GatherDone(c)

\* The event loop runs every coroutine that is ready, an awaited XREADGROUP returns (block=1000) or
\* raises, a sleep ends, every awaited callback ends, and gather returns
\* once its coroutines have.
StopFairness ==
    /\ WF_vars(ManagerReturn)
    /\ \A c \in Workers :
          /\ WF_vars(XReadGroup(c) \/ XReadGroupError(c))
          /\ WF_vars(Backoff(c))
          /\ WF_vars(\E i \in 1 .. MaxBatch, cmd \in PdbCommands : HandleMessage(c, i, cmd))
          /\ WF_vars(\E i \in 1 .. MaxBatch, o \in CallbackOutcomes : CallbackReturn(c, i, o))
          /\ WF_vars(\E i \in 1 .. MaxBatch : XAckMessage(c, i))
          /\ WF_vars(GatherDone(c))

StopSpec == Init /\ [][NextStop]_vars /\ StopFairness

\* The pool with no stop requested and a broker that fails and recovers.
NextRecover ==
    \/ \E k \in 1 .. Len(Priorities), rc \in ProducerRetryCounts :
          ProducerEnqueue(Priorities[k], rc)
    \/ \E k \in 1 .. Len(Priorities) : ForeignEnqueue(Priorities[k])
    \/ ManagerConnect
    \/ ManagerLaunch
    \/ \E c \in Workers : XReadGroup(c)
    \/ \E c \in Workers, i \in 1 .. MaxBatch, cmd \in PdbCommands : HandleMessage(c, i, cmd)
    \/ \E c \in Workers, i \in 1 .. MaxBatch, o \in CallbackOutcomes : CallbackReturn(c, i, o)
    \/ \E c \in Workers, i \in 1 .. MaxBatch : XAckMessage(c, i)
    \/ \E c \in Workers : GatherDone(c)
    \/ \E c \in Workers : XReadGroupError(c)
    \/ \E c \in Workers : Backoff(c)

\* The broker is eventually recoverable: a consumer that keeps reading the
\* stream of a priority eventually has such a read answered.
RecoverFairness ==
    /\ WF_vars(ManagerConnect)
    /\ WF_vars(ManagerLaunch)
    /\ \A c \in Workers :
          /\ \A k \in 1 .. Len(Priorities) : SF_vars(tier[c] = k /\ XReadGroup(c))
          /\ WF_vars(Backoff(c))
          /\ WF_vars(\E i \in 1 .. MaxBatch, cmd \in PdbCommands : HandleMessage(c, i, cmd))
          /\ WF_vars(\E i \in 1 .. MaxBatch, o \in CallbackOutcomes : CallbackReturn(c, i, o))
          /\ WF_vars(\E i \in 1 .. MaxBatch : XAckMessage(c, i))
          /\ WF_vars(GatherDone(c))

RecoverSpec == Init /\ [][NextRecover]_vars /\ RecoverFairness

\* AfterHandlerException of a loop whose gather hands the exception of a
\* _handle_message to the except clause of start_consuming
AfterHandlerExceptionEscapes(c) == "sleep"

\* start_consuming while a _handle_message of its batch logs an exception:
\* the try of _handle_message spans its whole body and its except clause
\* catches Exception, nothing reaches asyncio.gather
AfterHandlerException(c) == cpc[c]

\* _handle_message / _handle_failure: the awaited xack raises (the broker
\* cannot be reached) -- the except clause of _handle_message logs, and the
\* coroutine ends; the message stays in the pending entries list
XAckError(c, i) ==
    /\ cpc[c] = "gather"
    /\ i \in DOMAIN batch[c]
    /\ batch[c][i].hpc = "xack"
    /\ batch' = [batch EXCEPT ![c][i].hpc = "done", ![c][i].exc = "ConnectionError"]
    /\ cpc' = [cpc EXCEPT ![c] = AfterHandlerException(c)]
    /\ UNCHANGED <<setupVars, brokerVars, producerVars, tier, running, sleepFor,
                   managerVars, calls>>

\* a pool whose consumers are constructed with a batch size of 1 .. MaxBatch
BatchLaunch == \E bs \in 1 .. MaxBatch : LaunchWith(bs, DeadLetterQueue)

\* A pool that is not asked to stop, reading batches of up to MaxBatch
\* messages from a broker that answers every read and may fail an XACK.
NextBatch ==
    \/ \E k \in 1 .. Len(Priorities), rc \in ProducerRetryCounts :
          ProducerEnqueue(Priorities[k], rc)
    \/ \E k \in 1 .. Len(Priorities) : ForeignEnqueue(Priorities[k])
    \/ ManagerConnect
    \/ BatchLaunch
    \/ \E c \in Workers : XReadGroup(c)
    \/ \E c \in Workers, i \in 1 .. MaxBatch, cmd \in PdbCommands : HandleMessage(c, i, cmd)
    \/ \E c \in Workers, i \in 1 .. MaxBatch, o \in CallbackOutcomes : CallbackReturn(c, i, o)
    \/ \E c \in Workers, i \in 1 .. MaxBatch : XAckMessage(c, i)
    \/ \E c \in Workers, i \in 1 .. MaxBatch : XAckError(c, i)
    \/ \E c \in Workers : GatherDone(c)

\* The event loop runs every coroutine that is ready, every read and every
\* awaited callback ends, and every XACK is answered or fails.
BatchFairness ==
    /\ WF_vars(ManagerConnect)
    /\ WF_vars(BatchLaunch)
    /\ \A c \in Workers :
          /\ WF_vars(XReadGroup(c))
          /\ WF_vars(\E i \in 1 .. MaxBatch, cmd \in PdbCommands : HandleMessage(c, i, cmd))
          /\ WF_vars(\E i \in 1 .. MaxBatch, o \in CallbackOutcomes : CallbackReturn(c, i, o))
          /\ WF_vars(\E i \in 1 .. MaxBatch : XAckMessage(c, i) \/ XAckError(c, i))
          /\ WF_vars(GatherDone(c))

BatchSpec == Init /\ [][NextBatch]_vars /\ BatchFairness

\* ---------------------------------------------------- RedisTaskQueue.connect

\* what the broker answers to an xgroup_create: the group is created, or
\* the command raises a RedisError -- BUSYGROUP when the group exists,
\* another one otherwise (the broker cannot be reached, the key holds
\* another type, ...)
XGroupCreateOutcomes == {"created", "BUSYGROUP", "RedisError"}

\* xgroup_create(..., id="0", ...): the position of a new group
GroupStartId == 0

\* connect: does the except clause of the loop let the error of an
\* xgroup_create reach the caller? It logs an error that is not BUSYGROUP
\* and has no raise.
ConnectRaises(outcome) == FALSE

\* connect: redis.from_url -- the client is created, no command is sent yet
ConnectFromUrl ==
    /\ mpc = "init"
    /\ mpc' = "xgroup_create"
    /\ conn' = "open"
    /\ UNCHANGED <<setupVars, brokerVars, producerVars, consumerVars, mrunning,
                   dead_letter_queue, stopPc, calls>>

\* the priority whose group the loop of connect creates next
NextGroup == CHOOSE k \in 1 .. Len(Priorities) :
                /\ groups[QueueOfTier(k)] = "none"
                /\ \A j \in 1 .. (k - 1) : groups[QueueOfTier(j)] /= "none"

\* connect: one pass of `for priority, queue_name in priority_queues.items()`
\* -- the awaited xgroup_create returns or raises; after the last pass
\* connect returns
XGroupCreate(outcome) ==
    /\ mpc = "xgroup_create"
    /\ LET k == NextGroup
           name == QueueOfTier(k)
       IN  /\ groups' = [groups EXCEPT ![name] = outcome]
           /\ cursor' = IF outcome = "created"
                        THEN [cursor EXCEPT ![name] = GroupStartId]
                        ELSE cursor
           /\ mpc' = IF ConnectRaises(outcome) THEN "raised"
                     ELSE IF k = Len(Priorities) THEN "connecting"
                     ELSE "xgroup_create"
    /\ UNCHANGED <<batch_size, consumers, stream, pending, nextId, producerVars,
                   consumerVars, mrunning, conn, dead_letter_queue, stopPc, calls>>

\* connect() of the pool against a broker that may fail a group creation,
\* while producers enqueue
NextConnect ==
    \/ \E k \in 1 .. Len(Priorities), rc \in ProducerRetryCounts :
          ProducerEnqueue(Priorities[k], rc)
    \/ ConnectFromUrl
    \/ \E outcome \in XGroupCreateOutcomes : XGroupCreate(outcome)

ConnectSpec == Init /\ [][NextConnect]_vars

\* ------------------------------------------- WorkerManager.start, once more

\* start() is awaited again on the manager once its first invocation has
\* returned: connect() makes a new client and finds every group in place,
\* NumWorkers more TaskConsumers are constructed and appended to
\* self.consumers, and start_consuming of every element of the list is
\* gathered. The coroutines of the second gather are not followed further.
StartAgain ==
    /\ mpc = "returned"
    /\ mpc' = "gather_again"
    /\ conn' = "open"
    /\ groups' = [name \in LiveQueues |-> "BUSYGROUP"]
    /\ consumers' = consumers \o [i \in 1 .. NumWorkers |-> i - 1]
    /\ batch_size' = BatchSize
    /\ dead_letter_queue' = DeadLetterQueue
    /\ mrunning' = TRUE
    /\ UNCHANGED <<brokerVars, producerVars, consumerVars, stopPc, calls>>

\* the pool and its shutdown, with a caller that starts the manager again
NextRestart ==
    \/ \E k \in 1 .. Len(Priorities), rc \in ProducerRetryCounts :
          ProducerEnqueue(Priorities[k], rc)
    \/ ManagerConnect
    \/ ManagerLaunch
    \/ ManagerReturn
    \/ \E s \in StopCalls : StopConsuming(s)
    \/ \E s \in StopCalls : StopClose(s)
    \/ \E c \in Workers : XReadGroup(c)
    \/ \E c \in Workers : XReadGroupError(c)
    \/ \E c \in Workers : Backoff(c)
    \/ \E c \in Workers, i \in 1 .. MaxBatch, cmd \in PdbCommands : HandleMessage(c, i, cmd)
    \/ \E c \in Workers, i \in 1 .. MaxBatch, o \in CallbackOutcomes : CallbackReturn(c, i, o)
    \/ \E c \in Workers, i \in 1 .. MaxBatch : XAckMessage(c, i)
    \/ \E c \in Workers : GatherDone(c)
    \/ StartAgain

RestartSpec == Init /\ [][NextRestart]_vars

\* ------------------------------------------- enqueue_task, every QueuedTask

\* enqueue_task(task) for any QueuedTask a caller may build: the task_data
\* is made from the task and handed to one XADD on the stream of its
\* priority
EnqueueTask(task) ==
    /\ produced < MaxEnqueue
    /\ stream' = XAdd(stream, EnqueueTaskQueue(task), task, nextId, 0)
    /\ written' = {[task |-> task, fields |-> TaskData(task)]}
    /\ nextId' = nextId + 1
    /\ produced' = produced + 1
    /\ calls' = Append(calls, 0)
    /\ enqueueResult' = "none"
    /\ UNCHANGED <<setupVars, cursor, pending, db, consumerVars, managerVars>>

NextEncode == \E task \in QueuedTasks(produced + 1) : EnqueueTask(task)

EncodeSpec == Init /\ [][NextEncode]_vars

\* ------------------------------------------ tasks with their own max_retries

\* max_retries values a caller may put in a QueuedTask: below, at and above
\* the max_retries of the consumers
TaskMaxRetries == {0, DefaultMaxRetries, 5}

\* the QueuedTasks a caller may hand to enqueue_task as its n-th task, any
\* max_retries field
RetryTasks(n) ==
    {[QueuedTask(n, p, rc) EXCEPT !.max_retries = m] :
        p \in PrioritySet, rc \in ProducerRetryCounts, m \in TaskMaxRetries}

\* a pool whose consumers are constructed with or without a dead-letter sink
AnySinkLaunch ==
    \E dlq \in {DeadLetterQueue, DefaultDeadLetterQueue} : LaunchWith(BatchSize, dlq)

\* The pool, not asked to stop, on a broker that answers every command,
\* fed with tasks of any max_retries.
NextRetry ==
    \/ \E task \in RetryTasks(produced + 1) : EnqueueTask(task)
    \/ ManagerConnect
    \/ AnySinkLaunch
    \/ \E c \in Workers : XReadGroup(c)
    \/ \E c \in Workers, i \in 1 .. MaxBatch, cmd \in PdbCommands : HandleMessage(c, i, cmd)
    \/ \E c \in Workers, i \in 1 .. MaxBatch, o \in CallbackOutcomes : CallbackReturn(c, i, o)
    \/ \E c \in Workers, i \in 1 .. MaxBatch : XAckMessage(c, i)
    \/ \E c \in Workers : GatherDone(c)

RetrySpec == Init /\ [][NextRetry]_vars

\* ---------------------------------------------- TaskService.create_task

\* the row of task t is visible to another session: its transaction committed
Committed(t) == t \in DOMAIN db /\ db[t] = "committed"

\* create_task is between its insert and its commit
Creating == db /= <<>> /\ db[Len(db)] = "flushed"

\* create_task: task_repo.create_task -- the row is inserted and flushed in
\* the transaction of the session, and the database assigns task.id
CreateTaskFlush ==
    /\ produced < MaxEnqueue
    /\ ~Creating
    /\ Len(db) = produced
    /\ db' = Append(db, "flushed")
    /\ UNCHANGED <<setupVars, brokerVars, produced, enqueueResult, written, consumerVars,
                   managerVars, calls>>

\* create_task: queue_id = await self.task_queue.enqueue_task(queued_task),
\* with the row inserted and the transaction still open
CreateTaskEnqueue(p) ==
    /\ Creating
    /\ Len(db) = produced + 1
    /\ ProducerEnqueue(p, 0)

\* create_task: update_task_queue_info, then session.commit()
CreateTaskCommit ==
    /\ Creating
    /\ Len(db) = produced
    /\ db' = [db EXCEPT ![Len(db)] = "committed"]
    /\ UNCHANGED <<setupVars, brokerVars, produced, enqueueResult, written, consumerVars,
                   managerVars, calls>>

\* create_task: an awaited call raised (enqueue_task, the flush of
\* update_task_queue_info, the commit) -- the except clause rolls the
\* transaction back and re-raises. The row is gone; when the XADD had been
\* sent, the entry it appended is not touched.
CreateTaskRollback ==
    /\ Creating
    /\ db' = IF Len(db) = produced
             THEN [db EXCEPT ![Len(db)] = "rolled_back"]
             ELSE SubSeq(db, 1, Len(db) - 1)
    /\ UNCHANGED <<setupVars, brokerVars, produced, enqueueResult, written, consumerVars,
                   managerVars, calls>>

\* the callback of the pool, TaskService.process_task: it looks the task up
\* in a session of its own and returns False ("not found in database") when
\* the row is not visible; otherwise it returns or raises
ProcessTask(c, i, o) ==
    /\ i \in DOMAIN batch[c]
    /\ Committed(batch[c][i].task.task_id) \/ o = "false"
    /\ CallbackReturn(c, i, o)

\* The API process creating tasks and the pool consuming them, on a broker
\* and a database that answer or fail.
NextCreate ==
    \/ CreateTaskFlush
    \/ \E k \in 1 .. Len(Priorities) : CreateTaskEnqueue(Priorities[k])
    \/ CreateTaskCommit
    \/ CreateTaskRollback
    \/ ManagerConnect
    \/ ManagerLaunch
    \/ \E c \in Workers : XReadGroup(c)
    \/ \E c \in Workers, i \in 1 .. MaxBatch, cmd \in PdbCommands : HandleMessage(c, i, cmd)
    \/ \E c \in Workers, i \in 1 .. MaxBatch, o \in CallbackOutcomes : ProcessTask(c, i, o)
    \/ \E c \in Workers, i \in 1 .. MaxBatch : XAckMessage(c, i)
    \/ \E c \in Workers : GatherDone(c)

CreateSpec == Init /\ [][NextCreate]_vars

\* ------------------------------------------------- the fields on the wire

\* decimal text of the small integers the fields hold
Digits == <<"0", "1", "2", "3", "4", "5", "6", "7", "8", "9">>

\* the text the client sends for an int field value
Repr(n) == Digits[n + 1]

\* int(s) of the text of a small integer
ParseInt(s) == (CHOOSE k \in 1 .. Len(Digits) : Digits[k] = s) - 1

\* the fields of an entry as XREADGROUP returns them to a client created with
\* decode_responses=True: every value is a string
Wire(task_data) ==
    [task_data EXCEPT !.task_id = Repr(@), !.user_id = Repr(@),
                      !.retry_count = Repr(@), !.max_retries = Repr(@)]

\* str.lower() of the texts str(bool) produces
Lower(t) ==
    CASE t = "True" -> "true"
      [] t = "False" -> "false"
      [] OTHER -> t

\* TaskConsumer._deserialize_task, on the fields of an entry that
\* enqueue_task wrote (webhook_url, retry_count and max_retries are present)
DeserializeFields(fields) ==
    [task_id |-> ParseInt(fields.task_id),
     user_id |-> ParseInt(fields.user_id),
     task_type |-> fields.task_type,
     priority |-> fields.priority,
     input_text |-> fields.input_text,
     user_context |-> JsonLoads(fields.user_context),
     accessibility_mode |-> (Lower(fields.accessibility_mode) = "true"),
     webhook_url |-> fields.webhook_url,
     retry_count |-> ParseInt(fields.retry_count),
     max_retries |-> ParseInt(fields.max_retries)]

\* ------------------------------------------------------------ properties

\* the _handle_message coroutines in flight
InFlight == {<<c, i>> : c \in Workers, i \in 1 .. MaxBatch} \cap
            UNION {{<<c, i>> : i \in DOMAIN batch[c]} : c \in Workers}

HandlerAt(ci) == batch[ci[1]][ci[2]]

\* the entries of a stream that _handle_failure wrote while resolving delivery id
WrittenFor(name, id) == {k \in 1 .. Len(stream[name]) : stream[name][k].origin = id}

\* the entry with a given id
EntryOf(id) ==
    LET name == CHOOSE q \in QueueNames : \E k \in 1 .. Len(stream[q]) : stream[q][k].id = id
        k == CHOOSE j \in 1 .. Len(stream[name]) : stream[name][j].id = id
    IN  stream[name][k]

\* the callback returned False and _handle_message has ended
FailedAttempt(h) == h.hpc = "done" /\ h.cb = "false"

\* C1: after a delivery whose callback returned False with retry_count below
\* max_retries has been handled, the stream of its priority holds exactly one
\* new entry for it, with the same task_id and priority and retry_count one
\* higher, and the delivered message is no longer pending.
C1_FailureBelowMaxIsRetriedAndAcked ==
    \A ci \in InFlight :
        LET h == HandlerAt(ci)
            q == PriorityQueues(h.task.priority)
        IN  (FailedAttempt(h) /\ EntryOf(h.id).retry_count < ConsumerMaxRetries) =>
               /\ Cardinality(WrittenFor(q, h.id)) = 1
               /\ \A k \in WrittenFor(q, h.id) :
                     /\ stream[q][k].task_id = EntryOf(h.id).task_id
                     /\ stream[q][k].priority = EntryOf(h.id).priority
                     /\ stream[q][k].retry_count = EntryOf(h.id).retry_count + 1
               /\ ~IsPending(h.id)

\* C2: after a delivery whose callback returned False and whose incremented
\* retry_count exceeds max_retries has been handled, the dead-letter stream
\* holds exactly one entry for it, carrying the incremented retry_count, no
\* priority stream holds one, and the delivered message is no longer pending.
C2_ExhaustedIsDeadLetteredAndAcked ==
    \A ci \in InFlight :
        LET h == HandlerAt(ci)
        IN  (FailedAttempt(h) /\ EntryOf(h.id).retry_count + 1 > ConsumerMaxRetries) =>
               /\ Cardinality(WrittenFor(DeadLetterQueue, h.id)) = 1
               /\ \A k \in WrittenFor(DeadLetterQueue, h.id) :
                     stream[DeadLetterQueue][k].retry_count = EntryOf(h.id).retry_count + 1
               /\ \A q \in LiveQueues : WrittenFor(q, h.id) = {}
               /\ ~IsPending(h.id)

\* C3: once the callback returned True and the delivery is handled, the
\* message has been acknowledged exactly once and is not pending, nothing was
\* written for it to a priority stream or to the dead-letter stream, and a
\* second XACK of it changes nothing.
C3_SuccessAcksOnceAndWritesNothing ==
    \A ci \in InFlight :
        LET h == HandlerAt(ci)
        IN  (h.hpc = "done" /\ h.cb = "true") =>
               /\ h.acks = 1
               /\ h.exc = "none"
               /\ ~IsPending(h.id)
               /\ \A q \in QueueNames : WrittenFor(q, h.id) = {}
               /\ XAck(pending, h.name, h.id) = pending

C3_Witness ==
    \E ci \in InFlight : HandlerAt(ci).hpc = "done" /\ HandlerAt(ci).cb = "true"

\* the messages of a stream delivered to consumer c and still pending
PendingOf(name, c) == {e.id : e \in {x \in pending[name] : x.consumer = c}}

\* the messages of any stream delivered to consumer c and still pending
AllPendingOf(c) == UNION {PendingOf(name, c) : name \in LiveQueues}

\* the index of the priority whose stream consumer c reads, or has read its
\* batch from
TierOf(c) ==
    IF cpc[c] = "gather"
    THEN CHOOSE k \in 1 .. Len(Priorities) : QueueOfTier(k) = batch[c][1].name
    ELSE tier[c]

\* C4: a consumer that reads, or has read a batch from, the stream of a
\* priority has invoked the callback for every message of a higher priority
\* delivered to it: the callback runs for every available HIGH entry before a
\* NORMAL or LOW entry is read, and for every NORMAL entry before a LOW one.
C4_CallbackForHigherTiersBeforeLowerRead ==
    \A c \in Workers :
        cpc[c] \in {"read", "gather"} =>
            \A k \in 1 .. (TierOf(c) - 1) :
                \A id \in PendingOf(QueueOfTier(k), c) :
                    ~DeserializeRaises(EntryOf(id)) => calls[id] >= 1

\* a consumer moves on to the stream of a lower priority only in a step in
\* which the read of the current priority returned nothing
ReadPrecedence ==
    [][\A c \in Workers :
          (cpc[c] = "read" /\ cpc'[c] = "read" /\ tier'[c] > tier[c]) =>
              /\ tier'[c] = tier[c] + 1
              /\ Undelivered(QueueOfTier(tier[c])) = <<>>]_vars

\* C5: a delivery whose callback raised is handled without an XACK and
\* without writing anything: the message is pending, and it stays pending
\* in every later state, since an id leaves the pending entries list only
\* by the XACK of a _handle_message whose callback returned.
C5_FaultLeavesMessagePending ==
    /\ [](\A ci \in InFlight :
            LET h == HandlerAt(ci)
            IN  h.cb = "raised" =>
                   /\ h.hpc = "done"
                   /\ h.acks = 0
                   /\ IsPending(h.id)
                   /\ \A q \in QueueNames : WrittenFor(q, h.id) = {})
    /\ [][\A name \in LiveQueues : \A e \in pending[name] :
             e \notin pending'[name] =>
                \E ci \in InFlight :
                   /\ HandlerAt(ci).id = e.id
                   /\ HandlerAt(ci).hpc = "xack"
                   /\ HandlerAt(ci).cb \in {"true", "false"}]_vars

C5_Witness ==
    \E ci \in InFlight :
        HandlerAt(ci).cb = "raised" /\ HandlerAt(ci).hpc = "done" /\ IsPending(HandlerAt(ci).id)

\* the entries of a stream
Entries(name) == {stream[name][k] : k \in 1 .. Len(stream[name])}

RECURSIVE SumCalls(_, _)
\* the number of callback invocations for the deliveries of task t among the
\* message ids 1 .. n
SumCalls(t, n) ==
    IF n = 0 THEN 0
    ELSE (IF EntryOf(n).task_id = t THEN calls[n] ELSE 0) + SumCalls(t, n - 1)

\* C7: the callback is invoked at most max_retries + 1 times for a task, and
\* a task whose callback returned False is carried on: a handled failed
\* attempt has left a retry entry in a priority stream or, with the retries
\* exhausted, an entry in the dead-letter stream, after which no delivery of
\* the task is left to make.
C7_BoundedRetriesThenDeadLetter ==
    /\ \A t \in 1 .. produced : SumCalls(t, Len(calls)) <= ConsumerMaxRetries + 1
    /\ \A ci \in InFlight :
          LET h == HandlerAt(ci)
          IN  FailedAttempt(h) =>
                 IF h.task.retry_count <= ConsumerMaxRetries
                 THEN \E q \in LiveQueues : WrittenFor(q, h.id) /= {}
                 ELSE WrittenFor(DeadLetterQueue, h.id) /= {}
    /\ \A d \in Entries(DeadLetterQueue) : \A q \in LiveQueues :
          \A k \in (cursor[q] + 1) .. Len(stream[q]) : stream[q][k].task_id /= d.task_id

\* C8: a message id is pending for at most one consumer, at most one
\* _handle_message of the pool holds it, the consumer that holds it is the
\* one it is pending for, and the callback is invoked at most once for it.
C8_OneOwnerPerDelivery ==
    /\ \A name \in LiveQueues : \A e1, e2 \in pending[name] :
          e1.id = e2.id => e1.consumer = e2.consumer
    /\ \A ci1, ci2 \in InFlight :
          HandlerAt(ci1).id = HandlerAt(ci2).id => ci1 = ci2
    /\ \A ci \in InFlight : \A e \in pending[HandlerAt(ci).name] :
          e.id = HandlerAt(ci).id => e.consumer = ci[1]
    /\ \A id \in DOMAIN calls : calls[id] <= 1

C8_Witness ==
    \E ci1, ci2 \in InFlight :
        /\ ci1[1] /= ci2[1]
        /\ HandlerAt(ci1).hpc = "callback" /\ HandlerAt(ci2).hpc = "callback"
        /\ HandlerAt(ci1).name = HandlerAt(ci2).name
        /\ IsPending(HandlerAt(ci1).id) /\ IsPending(HandlerAt(ci2).id)

\* C9: stop() closes the connection only once every consumer has finished
\* its in-flight batch: the step that closes the connection is never taken
\* while a consumer has a dispatched message whose callback is still to run
\* or running, or whose XACK is still to be sent.
C9_NoCloseWhileInFlight ==
    [][(conn /= "closed" /\ conn' = "closed") =>
          \A ci \in InFlight : HandlerAt(ci).hpc = "done"]_vars

\* message id is an entry of a priority stream, as enqueue_task writes it
Enqueued(id) ==
    \E q \in LiveQueues : \E e \in Entries(q) : e.id = id /\ ~DeserializeRaises(e)

\* message id has been handed to a consumer by an XREADGROUP
Delivered(id) ==
    \E q \in LiveQueues : \E k \in 1 .. cursor[q] : stream[q][k].id = id

\* the callback has been invoked for message id
Invoked(id) == id \in DOMAIN calls /\ calls[id] >= 1

\* C10: with the broker reachable and the consumers running, every message
\* appended to a priority stream is eventually passed to the callback.
C10_EveryMessageReachesCallback ==
    \A id \in 1 .. MaxEnqueue : [](Enqueued(id) => <>Invoked(id))

\* C11: a delivered entry that cannot be decoded is handled without the
\* callback, without an XACK and without writing anything: the callback has
\* never been invoked for it, it is pending from its delivery on, in every
\* later state, and the consumer goes on to its next cycle.
C11_DecodeFailureLeavesMessagePending ==
    /\ [](\A q \in LiveQueues : \A k \in 1 .. cursor[q] :
            DeserializeRaises(stream[q][k]) =>
               /\ calls[stream[q][k].id] = 0
               /\ IsPending(stream[q][k].id)
               /\ \A n \in QueueNames : WrittenFor(n, stream[q][k].id) = {})
    /\ [](\A ci \in InFlight :
            LET h == HandlerAt(ci)
            IN  DeserializeRaises(h.fields) =>
                   /\ h.hpc \in {"start", "done"}
                   /\ h.cb = "none" /\ h.acks = 0
                   /\ h.hpc = "done" => (h.exc = "KeyError" /\ ENABLED GatherDone(ci[1])))

C11_Witness ==
    \E c \in Workers : \E q \in LiveQueues : \E k \in 1 .. cursor[q] :
        /\ DeserializeRaises(stream[q][k])
        /\ [id |-> stream[q][k].id, consumer |-> c] \in pending[q]
        /\ batch[c] = <<>>
        /\ cpc[c] = "read"

\* C12: with no dead-letter sink configured, a delivery whose callback
\* returned False and whose incremented retry_count exceeds max_retries is
\* dropped: once handled, nothing has been written for it to a priority
\* stream or to the dead-letter stream, and the delivered message has been
\* acknowledged and is no longer pending.
C12_ExhaustedWithoutSinkIsDroppedAndAcked ==
    \A ci \in InFlight :
        LET h == HandlerAt(ci)
        IN  (FailedAttempt(h) /\ h.task.retry_count > ConsumerMaxRetries
                /\ ~Truthy(dead_letter_queue)) =>
               /\ \A q \in QueueNames : WrittenFor(q, h.id) = {}
               /\ h.acks = 1
               /\ h.exc = "none"
               /\ ~IsPending(h.id)

C12_Witness ==
    \E ci \in InFlight :
        /\ FailedAttempt(HandlerAt(ci))
        /\ HandlerAt(ci).task.retry_count = ConsumerMaxRetries + 1
        /\ dead_letter_queue = None
        /\ HandlerAt(ci).acks = 1

\* the time an entry waits, after the XADD of enqueue_task, before an
\* XREADGROUP may return it: enqueue_task has no scheduling, the entry is
\* readable at once
ScheduledDelay(e) == 0

\* C13: a delivery whose callback returned False with retries left is, once
\* handled, followed by a retry entry that is held back for 2^N time units,
\* N being the retry_count of the retry entry.
C13_RetryScheduledWithBackoff ==
    \A ci \in InFlight :
        LET h == HandlerAt(ci)
        IN  (FailedAttempt(h) /\ h.task.retry_count <= ConsumerMaxRetries) =>
               \E q \in LiveQueues : \E k \in WrittenFor(q, h.id) :
                  ScheduledDelay(stream[q][k]) = 2 ^ (stream[q][k].retry_count)

\* C14: an enqueue_task call that finds the broker unreachable raises to its
\* caller, returns no message id, leaves every stream as it was and opens
\* no connection.
C14_EnqueueOnDownBrokerFails ==
    [][(enqueueResult = "none" /\ enqueueResult' = "ConnectionError") =>
          /\ stream' = stream
          /\ nextId' = nextId
          /\ produced' = produced
          /\ conn' = conn
          /\ calls' = calls]_vars

C14_Witness ==
    /\ enqueueResult = "ConnectionError"
    /\ produced = 1
    /\ XLen("tasks:high") = 1

\* C15: a consumer whose running flag stop_consuming has cleared eventually
\* leaves its polling loop; a consumer that has left it stays out and reads
\* no more; and once every consumer has left it, start() returns.
C15_StopTerminates ==
    /\ \A c \in Workers :
          [](((cpc[c] \notin {"absent", "stopped"}) /\ ~running[c]) => <>(cpc[c] = "stopped"))
    /\ [][\A c \in Workers :
             cpc[c] = "stopped" =>
                (cpc'[c] = "stopped" /\ batch'[c] = <<>> /\ AllPendingOf(c)' = AllPendingOf(c))]_vars
    /\ []((\A c \in Workers : cpc[c] = "stopped") => <>(mpc = "returned"))

C15_Witness ==
    /\ \A c \in Workers : cpc[c] = "stopped"
    /\ mpc = "returned"
    /\ \E name \in LiveQueues : cursor[name] > 0

\* C16: the read that follows a resolved batch is the one of the first
\* priority; a consumer comes to read the second priority only by an empty
\* read of the first, and the third only by an empty read of the second, in
\* the same pass over the priorities.
C16_CycleRestartsFromHigh ==
    [][\A c \in Workers :
          /\ (cpc[c] = "gather" /\ cpc'[c] /= "gather") => tier'[c] = 1
          /\ \A k \in 2 .. Len(Priorities) :
                (cpc'[c] = "read" /\ tier'[c] = k /\ ~(cpc[c] = "read" /\ tier[c] = k)) =>
                   /\ cpc[c] = "read"
                   /\ tier[c] = k - 1
                   /\ Undelivered(QueueOfTier(k - 1)) = <<>>
                   /\ batch'[c] = <<>>]_vars

C16_Witness ==
    \E c \in Workers :
        /\ cpc[c] = "read"
        /\ tier[c] = Len(Priorities)
        /\ AllPendingOf(c) /= {}

\* C17: an XACK is sent for a message only by the handler of its delivery,
\* after the one callback invocation made for the message has returned a
\* result.
C17_AckOnlyAfterCallbackReturned ==
    /\ [](\A ci \in InFlight :
            LET h == HandlerAt(ci)
            IN  (h.hpc = "xack" \/ h.acks >= 1) =>
                   (h.cb \in {"true", "false"} /\ calls[h.id] = 1 /\ h.acks <= 1))
    /\ [][\A name \in LiveQueues : \A e \in pending[name] :
             e \notin pending'[name] =>
                \E ci \in InFlight :
                   /\ ci[1] = e.consumer
                   /\ HandlerAt(ci).id = e.id
                   /\ HandlerAt(ci).cb \in {"true", "false"}
                   /\ calls[e.id] = 1
                   /\ calls'[e.id] = 1]_vars

C17_Witness ==
    \E ci \in InFlight :
        /\ HandlerAt(ci).acks = 1
        /\ HandlerAt(ci).cb = "true"
        /\ calls[HandlerAt(ci).id] = 1
        /\ ~IsPending(HandlerAt(ci).id)

\* C18: a read delivers only entries that were never delivered; the
\* group's position never moves back; the callback is invoked at most once
\* for a message id, acknowledged or not.
C18_NoRedelivery ==
    /\ [](\A id \in DOMAIN calls : calls[id] <= 1)
    /\ [][/\ \A name \in LiveQueues : cursor'[name] >= cursor[name]
          /\ \A c \in Workers :
                (batch[c] = <<>> /\ batch'[c] /= <<>>) =>
                   \A i \in DOMAIN batch'[c] :
                      /\ ~Delivered(batch'[c][i].id)
                      /\ ~IsPending(batch'[c][i].id)
                      /\ calls[batch'[c][i].id] = 0]_vars

C18_Witness ==
    \E name \in LiveQueues : \E e \in pending[name] :
        /\ \A ci \in InFlight : HandlerAt(ci).id /= e.id
        /\ cursor[name] = 2
        /\ \A c \in Workers : cpc[c] = "read"

\* C19: a consumer leaves a dispatched batch, and with it comes to the test
\* of its running flag, only when every handler of the batch has ended; a
\* step of stop() changes no handler, no consumer's position and no pending
\* entry; a handler never ends while its callback is running.
C19_StopNeverInterruptsBatch ==
    /\ [](\A c \in Workers : cpc[c] \in {"stopped", "read", "sleep"} => batch[c] = <<>>)
    /\ [](\A ci \in InFlight : HandlerAt(ci).hpc = "done" => HandlerAt(ci).cb /= "running")
    /\ [][/\ \A c \in Workers :
                (cpc[c] = "gather" /\ cpc'[c] /= "gather") =>
                   \A i \in DOMAIN batch[c] : batch[c][i].hpc = "done"
          /\ (stopPc' /= stopPc) => (batch' = batch /\ cpc' = cpc /\ pending' = pending)]_vars

C19_Witness ==
    \E ci \in InFlight :
        /\ ~running[ci[1]]
        /\ HandlerAt(ci).hpc = "done"
        /\ HandlerAt(ci).cb = "true"
        /\ HandlerAt(ci).acks = 1
        /\ conn = "closed"

\* C20: an XREADGROUP that raises sends the consumer to a sleep of 5 s,
\* after which the cycle restarts with the first priority; the errors are
\* not counted, no number of them ends the loop of a consumer whose running
\* flag is set, and with a broker that recovers every message is
\* eventually delivered.
C20_BrokerErrorBacksOffAndResumes ==
    /\ [](\A c \in Workers : cpc[c] = "sleep" => (sleepFor[c] = 5 /\ tier[c] = 1))
    /\ [][\A c \in Workers :
             /\ (cpc[c] = "sleep" /\ cpc'[c] /= "sleep") =>
                   (cpc'[c] = "read" /\ tier'[c] = 1 /\ running[c])
             /\ (cpc[c] = "read" /\ cpc'[c] = "sleep") =>
                   (cursor' = cursor /\ pending' = pending /\ running' = running)
             /\ (cpc[c] /= "stopped" /\ cpc'[c] = "stopped") => ~running[c]]_vars
    /\ \A c \in Workers : [](cpc[c] = "sleep" => <>(cpc[c] = "read"))
    /\ \A id \in 1 .. MaxEnqueue : [](Enqueued(id) => <>Delivered(id))

C20_Witness ==
    \E c \in Workers :
        /\ cpc[c] = "sleep"
        /\ sleepFor[c] = BackoffSeconds
        /\ running[c]
        /\ \E q \in LiveQueues : Undelivered(q) /= <<>>

\* every message appended to a priority stream is eventually delivered
EveryMessageDelivered ==
    \A id \in 1 .. MaxEnqueue : [](Enqueued(id) => <>Delivered(id))

\* the handlers of the batch of consumer c that have logged an exception
Faulted(c) == {i \in DOMAIN batch[c] : batch[c][i].exc /= "none"}

\* C21: a failure of one message is contained. While the pool is not asked
\* to stop no consumer leaves its loop or enters the loop's error backoff; a
\* step in which a _handle_message logs an exception (the callback raised,
\* the fields could not be decoded, the re-enqueue or the XACK of the
\* resolution raised) changes no other handler of any batch, no consumer's
\* loop position and no consumer's running flag; and every batch, whatever
\* its handlers met, is resolved and the consumer goes back to reading.
C21_TaskFailuresAreContained ==
    /\ [](\A c \in Workers : cpc[c] \in {"absent", "read", "gather"})
    /\ [][\A c \in Workers : \A i \in DOMAIN batch[c] :
            (i \in DOMAIN batch'[c] /\ batch[c][i].exc = "none" /\ batch'[c][i].exc /= "none") =>
               /\ cpc' = cpc
               /\ running' = running
               /\ \A d \in Workers : DOMAIN batch'[d] = DOMAIN batch[d]
               /\ \A d \in Workers : \A j \in DOMAIN batch[d] :
                     <<d, j>> /= <<c, i>> => batch'[d][j] = batch[d][j]]_vars
    /\ \A c \in Workers : [](cpc[c] = "gather" => <>(cpc[c] = "read" /\ batch[c] = <<>>))

\* a batch of two whose first message failed and whose second was processed
\* and acknowledged, while another consumer is still reading
C21_Witness ==
    \E c \in Workers :
        /\ Len(batch[c]) = 2
        /\ batch[c][1].exc /= "none"
        /\ batch[c][2].cb = "true" /\ batch[c][2].acks = 1
        /\ \E d \in Workers \ {c} : cpc[d] = "read"

\* the handlers of the batch of consumer c that have not ended
Unresolved(c) == {i \in DOMAIN batch[c] : batch[c][i].hpc /= "done"}

\* C22: a consumer never holds more than batch_size messages, it awaits a
\* read (of any priority) or the backoff only with no message of a batch in
\* hand, a step that delivers messages to it starts from an empty batch, and
\* it leaves the gather of a batch only when every message of the batch has
\* been resolved.
C22_BatchBoundsInFlightAndGatesReads ==
    /\ [](\A c \in Workers :
             /\ batch[c] /= <<>> => Len(batch[c]) <= batch_size
             /\ cpc[c] /= "gather" => batch[c] = <<>>)
    /\ [][\A c \in Workers :
            /\ (\E q \in LiveQueues : \E e \in pending'[q] \ pending[q] : e.consumer = c) =>
                  (batch[c] = <<>> /\ Len(batch'[c]) <= batch_size)
            /\ (cpc[c] = "gather" /\ cpc'[c] /= "gather") => Unresolved(c) = {}]_vars

\* a batch of two messages of which one is resolved while the callback of
\* the other is still running: the consumer waits
C22_Witness ==
    \E c \in Workers :
        /\ cpc[c] = "gather"
        /\ Len(batch[c]) = 2 /\ batch_size = 2
        /\ batch[c][1].hpc = "callback"
        /\ batch[c][2].hpc = "done"

\* the message ids of the entries of every stream
AllIds == UNION {{stream[q][k].id : k \in 1 .. Len(stream[q])} : q \in QueueNames}

\* C23: a step in which enqueue_task succeeds (the task_data of a new task
\* has been handed to XADD) appends exactly one entry, for that task, to the
\* stream of the task's priority, under a message id no entry had before;
\* the other priority streams, the dead-letter stream, the group's positions
\* and every pending entries list are left as they were.
C23_EnqueueAppendsOneEntryToItsStream ==
    [][written' /= written =>
          \A w \in written' :
              LET q == PriorityQueues(w.fields.priority)
                  e == stream'[q][Len(stream'[q])]
              IN  /\ enqueueResult' = "none"
                  /\ Len(stream'[q]) = Len(stream[q]) + 1
                  /\ SubSeq(stream'[q], 1, Len(stream[q])) = stream[q]
                  /\ e.task_id = w.fields.task_id
                  /\ e.priority = w.fields.priority
                  /\ e.retry_count = w.fields.retry_count
                  /\ e.id \notin AllIds
                  /\ e.id = nextId /\ nextId' > nextId
                  /\ \A o \in QueueNames \ {q} : stream'[o] = stream[o]
                  /\ pending' = pending
                  /\ cursor' = cursor]_vars

\* the second task was enqueued to a stream that already held an entry,
\* while a message of another stream is pending
C23_Witness ==
    /\ \E w \in written :
          /\ w.fields.task_id = 2
          /\ Len(stream[PriorityQueues(w.fields.priority)]) = 2
    /\ \E q \in LiveQueues : pending[q] /= {}

\* C24: the priority streams are append-only: whatever step the queue, a
\* consumer or the pool takes, every entry of a priority stream stays where
\* it is, unchanged; a step that acknowledges a message takes its id out of
\* the pending entries list and leaves the streams alone.
C24_PriorityStreamsAreAppendOnly ==
    [][/\ \A q \in LiveQueues :
             /\ Len(stream'[q]) >= Len(stream[q])
             /\ SubSeq(stream'[q], 1, Len(stream[q])) = stream[q]
       /\ (\E c \in Workers : \E i \in DOMAIN batch[c] :
              i \in DOMAIN batch'[c] /\ batch'[c][i].acks > batch[c][i].acks) =>
             /\ stream' = stream
             /\ \A q \in LiveQueues : pending'[q] \subseteq pending[q]
             /\ \E q \in LiveQueues : Cardinality(pending[q] \ pending'[q]) = 1]_vars

\* a message was acknowledged and its entry is still in the stream it was
\* read from, followed by a later entry
C24_Witness ==
    \E c \in Workers : \E i \in DOMAIN batch[c] :
        /\ batch[c][i].acks = 1
        /\ ~IsPending(batch[c][i].id)
        /\ \E k \in 1 .. Len(stream[batch[c][i].name]) :
              /\ stream[batch[c][i].name][k].id = batch[c][i].id
              /\ k < Len(stream[batch[c][i].name])

PositionOf(name, id) == CHOOSE k \in 1 .. Len(stream[name]) : stream[name][k].id = id

\* C26: with a batch size of 1 a consumer invokes the callback for the
\* entries of one priority stream in the order of their appends: in the
\* step in which a consumer invokes the callback for an entry, every entry
\* appended to the same stream before it has already been delivered, and
\* none of them is held by this consumer with its callback still to be
\* invoked.
C26_CallbackOrderFollowsAppendOrder ==
    [][\A c \in Workers : \A i \in DOMAIN batch[c] :
          (/\ batch_size = 1
           /\ i \in DOMAIN batch'[c]
           /\ batch[c][i].hpc = "start"
           /\ batch'[c][i].hpc = "callback") =>
             LET name == batch[c][i].name
                 pos == PositionOf(name, batch[c][i].id)
             IN  /\ calls'[batch[c][i].id] = calls[batch[c][i].id] + 1
                 /\ \A k \in 1 .. (pos - 1) :
                       /\ calls[stream[name][k].id] >= 1 \/ IsPending(stream[name][k].id)
                       /\ \A j \in DOMAIN batch[c] :
                             batch[c][j].id = stream[name][k].id => batch[c][j].hpc /= "start"]_vars

\* one consumer was handed both entries of a stream: the callback was
\* invoked for the first, which is still pending, and now for the second
C26_Witness ==
    \E c \in Workers : \E q \in LiveQueues :
        /\ Len(stream[q]) = 2
        /\ calls[stream[q][1].id] = 1
        /\ [id |-> stream[q][1].id, consumer |-> c] \in pending[q]
        /\ batch[c] /= <<>>
        /\ batch[c][1].id = stream[q][2].id
        /\ batch[c][1].hpc = "callback"

C28_ConnectSurfacesGroupCreationErrors ==
    /\ mpc = "connecting" =>
          \A q \in LiveQueues :
              /\ groups[q] \in {"created", "BUSYGROUP"}
              /\ groups[q] = "created" => cursor[q] = GroupStartId
    /\ mpc = "raised" => \E q \in LiveQueues : groups[q] = "RedisError"
    /\ (\E q \in LiveQueues : groups[q] = "RedisError") => mpc = "raised"

\* C29: once start() has constructed its consumers, self.consumers holds
\* exactly NumWorkers of them, with the worker ids worker-0 ..
\* worker-(NumWorkers-1), no two alike, in every state that follows --
\* also after start() has been awaited again on the same manager.
C29_PoolOwnsExactlyNDistinctConsumers ==
    mpc \notin {"init", "connecting"} =>
        /\ Len(consumers) = NumWorkers
        /\ {consumers[i] : i \in DOMAIN consumers} = Workers
        /\ \A i, j \in DOMAIN consumers : consumers[i] = consumers[j] => i = j

\* C30: the record enqueue_task writes for a task holds accessibility_mode
\* as the string "true" or "false", webhook_url as the empty string when the
\* task has none, user_context as its JSON text, and exactly the fields
\* task_id, user_id, task_type, priority, input_text, user_context,
\* accessibility_mode, webhook_url, retry_count, max_retries, queued_at.
C30_RecordEncoding ==
    \A w \in written :
        /\ w.fields.accessibility_mode = (IF w.task.accessibility_mode THEN "true" ELSE "false")
        /\ w.fields.webhook_url = (IF w.task.webhook_url = None THEN "" ELSE w.task.webhook_url)
        /\ JsonLoads(w.fields.user_context) = w.task.user_context
        /\ DOMAIN w.fields = {"task_id", "user_id", "task_type", "priority", "input_text",
                              "user_context", "accessibility_mode", "webhook_url",
                              "retry_count", "max_retries", "queued_at"}

\* C30 without the letter case of accessibility_mode: the other encodings
\* and the field set of the record
RecordEncodingButCase ==
    \A w \in written :
        /\ w.fields.accessibility_mode = Str(w.task.accessibility_mode)
        /\ w.fields.webhook_url = (IF w.task.webhook_url = None THEN "" ELSE w.task.webhook_url)
        /\ JsonLoads(w.fields.user_context) = w.task.user_context
        /\ DOMAIN w.fields = {"task_id", "user_id", "task_type", "priority", "input_text",
                              "user_context", "accessibility_mode", "webhook_url",
                              "retry_count", "max_retries", "queued_at"}

\* a replacement for delivery id has been appended to a priority stream or
\* to the dead-letter stream
Replaced(id) == \E q \in QueueNames : WrittenFor(q, id) /= {}

\* C31: a task whose callback returned False is never lost. While its
\* delivery is being resolved the message is pending or its replacement is
\* in a priority stream or in the dead-letter stream; when the enqueue of
\* the replacement raised, no XACK is sent for it; and a message leaves the
\* pending entries list only through the XACK of the handler that holds it,
\* which for a callback that returned False comes after the replacement was
\* appended.
C31_FailedTaskIsNeverLost ==
    /\ [](\A ci \in InFlight :
             LET h == HandlerAt(ci)
             IN  h.cb = "false" =>
                    /\ IsPending(h.id) \/ Replaced(h.id)
                    /\ (h.exc /= "none" /\ ~Replaced(h.id)) => (h.acks = 0 /\ h.hpc = "done"))
    /\ [][\A q \in LiveQueues : \A e \in pending[q] \ pending'[q] :
             \E ci \in InFlight :
                 LET h == HandlerAt(ci)
                 IN  /\ h.id = e.id
                     /\ h.hpc = "xack"
                     /\ h.cb = "false" => Replaced(h.id)]_vars

\* the callback returned False, the enqueue of the retry raised, and the
\* handler has ended: the message is still pending
C31_Witness ==
    \E ci \in InFlight :
        LET h == HandlerAt(ci)
        IN  /\ FailedAttempt(h)
            /\ h.exc = "TypeError"
            /\ h.acks = 0
            /\ IsPending(h.id)
            /\ ~Replaced(h.id)

\* some invocation of WorkerManager.stop has begun
StopCalled == \E s \in StopCalls : stopPc[s] /= "idle"

\* C32: a stop of the pool is never lost. Whenever stop() has been called --
\* also before the consumers are constructed or have set their running
\* flag -- from some point on no consumer loop of the pool runs; and no
\* consumer is handed messages by the broker, or starts another read, once
\* the connection has been closed.
C32_StopIsNeverLost ==
    /\ [](StopCalled => <>[](\A c \in Workers : cpc[c] \in {"absent", "stopped"}))
    /\ [][conn = "closed" =>
             \A c \in Workers :
                 /\ (cpc[c] = "read" /\ cpc'[c] = "read") => tier'[c] = tier[c]
                 /\ cpc'[c] = "read" => cpc[c] = "read"
                 /\ cpc[c] = "read" => cpc'[c] \in {"read", "stopped"}]_vars

\* C33: the choice between retry and dead letter is made with the
\* max_retries of the consumer, never with the max_retries field of the
\* task. A failed delivery is acknowledged exactly when its incremented
\* retry_count exceeds the consumer's max_retries and there is nothing to
\* enqueue (no dead-letter sink); and two failed deliveries whose entries
\* differ in max_retries only have the same outcome.
C33_DecisionUsesConsumerMaxRetries ==
    /\ \A ci \in InFlight :
          LET h == HandlerAt(ci)
          IN  FailedAttempt(h) =>
                 /\ h.task.max_retries = EntryOf(h.id).max_retries
                 /\ h.acks = 1 <=> (EntryOf(h.id).retry_count + 1 > ConsumerMaxRetries
                                     /\ ~Truthy(dead_letter_queue))
                 /\ h.exc = "TypeError" <=> (EntryOf(h.id).retry_count + 1 <= ConsumerMaxRetries
                                              \/ Truthy(dead_letter_queue))
    /\ \A ci, cj \in InFlight :
          LET h1 == HandlerAt(ci)
              h2 == HandlerAt(cj)
          IN  (/\ FailedAttempt(h1) /\ FailedAttempt(h2)
               /\ EntryOf(h1.id).retry_count = EntryOf(h2.id).retry_count
               /\ EntryOf(h1.id).priority = EntryOf(h2.id).priority) =>
                 /\ h1.exc = h2.exc
                 /\ h1.acks = h2.acks
                 /\ h1.task.retry_count = h2.task.retry_count
                 /\ IsPending(h1.id) <=> IsPending(h2.id)
                 /\ Replaced(h1.id) <=> Replaced(h2.id)

\* two failed deliveries of tasks with the same retry_count, one whose own
\* max_retries the incremented count exceeds and one whose it does not, have
\* both been dropped and acknowledged by consumers without a sink
C33_Witness ==
    \E ci, cj \in InFlight :
        LET h1 == HandlerAt(ci)
            h2 == HandlerAt(cj)
        IN  /\ FailedAttempt(h1) /\ FailedAttempt(h2)
            /\ EntryOf(h1.id).retry_count = EntryOf(h2.id).retry_count
            /\ EntryOf(h1.id).max_retries < EntryOf(h1.id).retry_count + 1
            /\ EntryOf(h2.id).max_retries >= EntryOf(h2.id).retry_count + 1
            /\ h1.acks = 1 /\ h2.acks = 1

\* C34: creation comes before processing. Whenever the callback has been
\* invoked for a delivered task, the row create_task inserted for it is
\* committed, so that the callback never fails to find it; and no priority
\* stream holds an entry for a task whose creation was rolled back.
C34_CreateThenProcess ==
    /\ \A ci \in InFlight :
          LET h == HandlerAt(ci)
          IN  h.hpc = "callback" => Committed(h.task.task_id)
    /\ \A q \in LiveQueues : \A k \in 1 .. Len(stream[q]) :
          stream[q][k].task_id \in DOMAIN db => db[stream[q][k].task_id] /= "rolled_back"

\* C35: the codec round-trips. Decoding the fields that enqueue_task wrote
\* for a task yields a task equal to the original in task_id, user_id,
\* task_type, priority, input_text, user_context, accessibility_mode,
\* webhook_url (None included), retry_count and max_retries.
C35_CodecRoundTrip ==
    \A w \in written : DeserializeFields(Wire(w.fields)) = w.task

\* the round trip of every field but webhook_url
RoundTripButWebhookUrl ==
    \A w \in written :
        [DeserializeFields(Wire(w.fields)) EXCEPT !.webhook_url = w.task.webhook_url] = w.task

\* the round trip of the tasks that carry a webhook_url
RoundTripWithWebhookUrl ==
    \A w \in written :
        w.task.webhook_url /= None => DeserializeFields(Wire(w.fields)) = w.task


\* an invocation of stop() runs or has run while another one has returned
Restopped == \E s, t \in StopCalls : s /= t /\ stopPc[s] = "done" /\ stopPc[t] /= "idle"

\* C36: WorkerManager.stop() is idempotent. An invocation that follows a
\* completed one (main's finally after the signal handler's task), or that
\* runs concurrently with another, raises no error, and once it has returned
\* the running flag of every consumer is false and the connection to the
\* broker is closed.
C36_StopIsIdempotent ==
    /\ \A s \in StopCalls : stopPc[s] /= "raised"
    /\ Restopped =>
          /\ \A c \in Workers : ~running[c]
          /\ ~mrunning
          /\ conn = "closed"

\* both invocations have returned, the connection is closed, and the pool
\* had been running: a message it was handed is still pending
C36_Witness ==
    /\ \A s \in StopCalls : stopPc[s] = "done"
    /\ conn = "closed"
    /\ nextId > 1
    /\ \E q \in LiveQueues : pending[q] /= {}


\* C37: routing. In every reachable state every entry of the stream of
\* priority P carries priority P; the stream a consumer was handed a message
\* from -- the one of the tier it is polling -- is the stream of the priority
\* of the decoded task, also after _handle_failure has incremented it; and
\* an entry written for a retry lies in the stream its original was read
\* from.
C37_RoutingInvariant ==
    /\ \A p \in PrioritySet : \A k \in 1 .. Len(stream[PriorityQueues(p)]) :
          stream[PriorityQueues(p)][k].priority = p
    /\ \A ci \in InFlight :
          LET h == HandlerAt(ci)
          IN  /\ h.name = PriorityQueues(h.task.priority)
              /\ h.name = PriorityQueues(h.fields.priority)
              /\ h.name = QueueOfTier(tier[ci[1]])
              /\ \E k \in 1 .. Len(stream[h.name]) : stream[h.name][k].id = h.id
    /\ \A q \in LiveQueues : \A k \in 1 .. Len(stream[q]) :
          stream[q][k].origin /= 0 =>
              \E j \in 1 .. Len(stream[q]) : stream[q][j].id = stream[q][k].origin

\* the callback runs for a task of priority low read from the stream of
\* priority low, after a delivery from another stream failed, and another
\* priority stream holds an entry
C37_Witness ==
    \E ci \in InFlight :
        LET h == HandlerAt(ci)
        IN  /\ h.hpc = "callback"
            /\ h.name = PriorityQueues("low")
            /\ h.task.priority = "low"
            /\ \E q \in LiveQueues \ {h.name} : stream[q] /= <<>>
            /\ \E cj \in InFlight : FailedAttempt(HandlerAt(cj)) /\ HandlerAt(cj).name /= h.name

====
